---------------------------- MODULE Spec2Model ----------------------------
(***************************************************************************)
(* Model of cmd/fuzz/reporter.go (monsoon): the Reporter's Display loop,   *)
(* the HTTPStats accumulator with its Report, and formatSeconds.           *)
(*                                                                         *)
(* Strings are sequences of one-character strings, so that formatting,     *)
(* concatenation and the lexicographic sort are computed, not assumed.     *)
(* Times are integers counted in clock ticks, TicksPerSec ticks a second.  *)
(* Floats that the code derives from integers (rps, rem, Seconds()) are    *)
(* kept as exact fractions [num, den].                                     *)
(***************************************************************************)
EXTENDS Integers, Sequences, FiniteSets

(***************************************************************************)
(* Bounds of the model.                                                    *)
(***************************************************************************)
MaxResults == 3
MaxCounts == 2
MaxTime == 2

\* Clock ticks per time.Second.
TicksPerSec == 2

\* The zero time.Time (lastRPS before the first rate update): long before
\* any time the clock shows.
ZeroTime == -1000

(***************************************************************************)
(* State                                                                   *)
(***************************************************************************)
VARIABLES
    pc,            \* where Display is
    filters,       \* r.filters
    chClosed,      \* ch is closed and drained
    countChannel,  \* values sent on countChannel and not yet received
    response,      \* the loop variable of Display
    print,         \* the local print of Display
    stats,         \* the HTTPStats of Display
    transcript,    \* what the terminal was asked to print, in order
    status,        \* the status lines last set on the terminal
    statusCalls,   \* number of SetStatus calls so far
    now,           \* the clock
    received,      \* history: the responses Display has received, in order
    countsSent,    \* history: the values sent on countChannel, in order
    countsTaken,   \* history: the values Display took from countChannel
    lt,            \* a LogTerminal: what it passed on and what it wrote to w
    fsCall         \* a call of formatSeconds: its argument and its result

vars == <<pc, filters, chClosed, countChannel, response, print, stats,
          transcript, status, statusCalls, now, received, countsSent,
          countsTaken, lt, fsCall>>

(***************************************************************************)
(* Inputs.                                                                 *)
(***************************************************************************)
\* Status codes the probes return.
Codes == {200, 404}

\* Response: Item, Error (non-nil or nil), HTTPResponse.StatusCode.
ResponseValues ==
    { [Item |-> <<"a">>, Error |-> FALSE, StatusCode |-> 200],
      [Item |-> <<>>,    Error |-> FALSE, StatusCode |-> 404],
      [Item |-> <<"c">>, Error |-> TRUE,  StatusCode |-> 0] }

\* Values sent on countChannel.
Counts == {2, 5}

\* A ResponseFilter is the set of responses it rejects.
Filter(rejectErrors, rejectCodes) ==
    [rejectErrors |-> rejectErrors, rejectCodes |-> rejectCodes]

alwaysReject == Filter(TRUE, Codes)
alwaysAccept == Filter(FALSE, {})

FilterSets ==
    { <<>>,
      <<alwaysReject, alwaysAccept>>,
      <<alwaysAccept, Filter(FALSE, {404})>> }

Reject(f, resp) ==
    IF resp.Error THEN f.rejectErrors
    ELSE resp.StatusCode \in f.rejectCodes

(***************************************************************************)
(* Strings and fmt verbs.                                                  *)
(***************************************************************************)
DigitChar(d) == <<"0", "1", "2", "3", "4", "5", "6", "7", "8", "9">>[d + 1]

\* Byte value of the characters that occur in the sorted lines.
CharCode(c) ==
    CASE c = "\n" -> 10
      [] c = " " -> 32
      [] c = "-" -> 45
      [] c = "0" -> 48 [] c = "1" -> 49 [] c = "2" -> 50 [] c = "3" -> 51
      [] c = "4" -> 52 [] c = "5" -> 53 [] c = "6" -> 54 [] c = "7" -> 55
      [] c = "8" -> 56 [] c = "9" -> 57
      [] c = ":" -> 58

RECURSIVE NatStr(_)
NatStr(n) == IF n < 10 THEN <<DigitChar(n)>>
             ELSE NatStr(n \div 10) \o <<DigitChar(n % 10)>>

\* %d and %v of an int.
Itoa(n) == IF n < 0 THEN <<"-">> \o NatStr(-n) ELSE NatStr(n)

\* %02d: zero-padded to width 2, the sign counting towards the width.
Pad2(n) == IF n >= 0 /\ n < 10 THEN <<"0">> \o NatStr(n) ELSE Itoa(n)

RECURSIVE Spaces(_)
Spaces(n) == IF n <= 0 THEN <<>> ELSE <<" ">> \o Spaces(n - 1)

\* %<w>s and %-<w>s.
PadLeft(s, w) == Spaces(w - Len(s)) \o s
PadRight(s, w) == s \o Spaces(w - Len(s))

\* Go's integer division and float-to-int conversion truncate towards zero.
Quot(a, b) == IF a >= 0 THEN a \div b ELSE -((-a) \div b)

\* int(f) of the fraction f.
Trunc(f) == Quot(f.num, f.den)

\* %.0f of a non-negative fraction: nearest integer, ties to even.
Round0(f) ==
    LET q == f.num \div f.den
        r == f.num % f.den
    IN  IF 2 * r < f.den THEN q
        ELSE IF 2 * r > f.den THEN q + 1
        ELSE IF q % 2 = 0 THEN q ELSE q + 1

\* Mutant: the shorter string first, the order of the numbers.
RECURSIVE StrLessShorterFirst(_, _)
StrLessShorterFirst(a, b) ==
    IF Len(a) # Len(b) THEN Len(a) < Len(b)
    ELSE IF a = <<>> THEN FALSE
    ELSE IF CharCode(Head(a)) # CharCode(Head(b))
         THEN CharCode(Head(a)) < CharCode(Head(b))
    ELSE StrLessShorterFirst(Tail(a), Tail(b))

\* Lexicographic byte order of strings (sort.StringSlice.Less).
RECURSIVE StrLess(_, _)
StrLess(a, b) ==
    IF b = <<>> THEN FALSE
    ELSE IF a = <<>> THEN TRUE
    ELSE IF CharCode(Head(a)) # CharCode(Head(b))
         THEN CharCode(Head(a)) < CharCode(Head(b))
    ELSE StrLess(Tail(a), Tail(b))

\* sort.Sort(sort.StringSlice(...)) of a collection of distinct strings.
RECURSIVE SortStrings(_)
SortStrings(S) ==
    IF S = {} THEN <<>>
    ELSE LET m == CHOOSE x \in S : \A y \in S \ {x} : StrLess(x, y)
         IN  <<m>> \o SortStrings(S \ {m})

(***************************************************************************)
(* formatSeconds                                                           *)
(***************************************************************************)
\* Mutant: the hours are not taken off before the minutes are computed.
formatSecondsKeepsHours(secs) ==
    LET sec0 == Trunc(secs)
        hours == Quot(sec0, 3600)
        min == Quot(sec0, 60)
        sec == sec0 - min * 60
    IN  IF hours > 0
        THEN Itoa(hours) \o <<"h">> \o Pad2(min) \o <<"m">> \o Pad2(sec) \o <<"s">>
        ELSE Itoa(min) \o <<"m">> \o Pad2(sec) \o <<"s">>

formatSeconds(secs) ==
    LET sec0 == Trunc(secs)
        hours == Quot(sec0, 3600)
        sec1 == sec0 - hours * 3600
        min == Quot(sec1, 60)
        sec == sec1 - min * 60
    IN  IF hours > 0
        THEN Itoa(hours) \o <<"h">> \o Pad2(min) \o <<"m">> \o Pad2(sec) \o <<"s">>
        ELSE Itoa(min) \o <<"m">> \o Pad2(sec) \o <<"s">>

(***************************************************************************)
(* HTTPStats                                                               *)
(***************************************************************************)
\* The zero HTTPStats value.
ZeroStats ==
    [Start |-> ZeroTime, StatusCodes |-> <<>>, Errors |-> 0, Responses |-> 0,
     Count |-> 0, lastRPS |-> ZeroTime, rps |-> [num |-> 0, den |-> 1]]

\* m[code]++ on a map.
MapInc(m, code) ==
    [c \in DOMAIN m \cup {code} |->
        IF c = code THEN (IF c \in DOMAIN m THEN m[c] + 1 ELSE 1) ELSE m[c]]

\* time.Since(h.Start) / time.Second at time t.
WholeSeconds(h, t) == (t - h.Start) \div TicksPerSec

\* Mutant: the duration is not divided by time.Second.
UpdateRateInTicks(h, t) ==
    IF (t - h.Start) > 0 /\ (t - h.lastRPS) > TicksPerSec
    THEN [h EXCEPT !.rps = [num |-> h.Responses, den |-> t - h.Start],
                   !.lastRPS = t]
    ELSE h

\* Mutant: the rate is updated one second after the last update already.
UpdateRateAtOneSecond(h, t) ==
    IF WholeSeconds(h, t) > 0 /\ (t - h.lastRPS) >= TicksPerSec
    THEN [h EXCEPT !.rps = [num |-> h.Responses, den |-> WholeSeconds(h, t)],
                   !.lastRPS = t]
    ELSE h

\* The rate update of Report at time t.
UpdateRate(h, t) ==
    IF WholeSeconds(h, t) > 0 /\ (t - h.lastRPS) > TicksPerSec
    THEN [h EXCEPT !.rps = [num |-> h.Responses, den |-> WholeSeconds(h, t)],
                   !.lastRPS = t]
    ELSE h

\* Mutant: the todo figure never goes below zero.
TodoClamped(h) ==
    IF h.Count - h.Responses < 0 THEN 0 ELSE h.Count - h.Responses

\* Mutant: the todo figure leaves the response just recorded out.
TodoBeforeRecord(h) == h.Count - h.Responses + 1

\* Line 92: todo := h.Count - h.Responses.
Todo(h) == h.Count - h.Responses

\* Lines 87-89: the rate part of the status line.
RatePart(h) ==
    IF h.rps.num > 0
    THEN <<",", " ">> \o Itoa(Round0(h.rps)) \o <<" ", "r", "e", "q", "/", "s">>
    ELSE <<>>

\* Mutant: the todo part is written for every count.
TodoPartAlways(h) ==
    <<",", " ">> \o Itoa(Todo(h)) \o <<" ", "t", "o", "d", "o">>

\* Lines 91-99: the todo part and, with a rate, the remaining time
\* float64(todo) / h.rps.
TodoPart(h) ==
    LET rem == [num |-> Todo(h) * h.rps.den, den |-> h.rps.num]
    IN  IF h.Count > 0
        THEN <<",", " ">> \o Itoa(Todo(h)) \o <<" ", "t", "o", "d", "o">>
             \o (IF h.rps.num > 0
                 THEN <<",", " ">> \o formatSeconds(rem)
                      \o <<" ", "r", "e", "m", "a", "i", "n", "i", "n", "g">>
                 ELSE <<>>)
        ELSE <<>>

\* Lines 101-103: the current item.
CurrentPart(current) ==
    IF current # <<>>
    THEN <<",", " ", "c", "u", "r", "r", "e", "n", "t", ":", " ">> \o current
    ELSE <<>>

\* The status line of Report, built from the stats after the rate update.
StatusLine(h, current) ==
    Itoa(h.Responses) \o <<" ", "r", "e", "q", "u", "e", "s", "t", "s">>
    \o RatePart(h) \o TodoPart(h) \o CurrentPart(current)

\* "<code>: <count>" for every entry of the map.
CodeLines(h) ==
    { Itoa(code) \o <<":", " ">> \o Itoa(h.StatusCodes[code]) :
        code \in DOMAIN h.StatusCodes }

\* Report at time t: the stats it leaves behind and the lines it returns.
Report(h, current, t) ==
    LET h2 == UpdateRate(h, t)
    IN  [stats |-> h2,
         res |-> <<<<>>, StatusLine(h2, current)>> \o SortStrings(CodeLines(h2))]

(***************************************************************************)
(* Terminal output                                                         *)
(***************************************************************************)
\* A transcript entry: the text handed to Print/Printf and the place in
\* Display that printed it.
Line(site, text) == [site |-> site, text |-> text]

\* Sprintf("%7s %8s %8s   %-8s %s\n", "status", "header", "body", "value",
\* "extract").
HeaderLine ==
    PadLeft(<<"s", "t", "a", "t", "u", "s">>, 7) \o <<" ">>
    \o PadLeft(<<"h", "e", "a", "d", "e", "r">>, 8) \o <<" ">>
    \o PadLeft(<<"b", "o", "d", "y">>, 8) \o <<" ", " ", " ">>
    \o PadRight(<<"v", "a", "l", "u", "e">>, 8) \o <<" ">>
    \o <<"e", "x", "t", "r", "a", "c", "t", "\n">>

\* The one-line form of a Response (%v), rendered outside this file.
ResponseString(resp) ==
    IF resp.Error
    THEN <<"e", "r", "r", "o", "r", " ">> \o resp.Item
    ELSE Itoa(resp.StatusCode) \o <<" ">> \o resp.Item

\* Sprintf("%v\n", response).
ResponseLine(resp) == ResponseString(resp) \o <<"\n">>

\* Sprintf("processed %d HTTP requests in %v\n", h.Responses,
\* formatSeconds(time.Since(h.Start).Seconds())) at time t.
ProcessedLine(h, t) ==
    <<"p", "r", "o", "c", "e", "s", "s", "e", "d", " ">> \o Itoa(h.Responses)
    \o <<" ", "H", "T", "T", "P", " ", "r", "e", "q", "u", "e", "s", "t", "s",
         " ", "i", "n", " ">>
    \o formatSeconds([num |-> t - h.Start, den |-> TicksPerSec])
    \o <<"\n">>

\* Mutant: the loop has no break and print is assigned by every filter, so
\* the last filter decides.
ShouldPrintLastDecides(fs, resp) ==
    IF fs = <<>> THEN TRUE ELSE ~Reject(fs[Len(fs)], resp)

\* The filter loop of Display: print unless some filter rejects.
\* Mutant: a response with an error is never printed.
ShouldPrintDropsErrors(fs, resp) ==
    ~resp.Error /\ \A i \in 1..Len(fs) : ~Reject(fs[i], resp)

RECURSIVE ShouldPrint(_, _)
ShouldPrint(fs, resp) ==
    IF fs = <<>> THEN TRUE
    ELSE IF Reject(Head(fs), resp) THEN FALSE
    ELSE ShouldPrint(Tail(fs), resp)

\* Mutant: the else is missing, an error is also counted under the status
\* code of its (absent) HTTP response.
RecordResponseNoElse(h, resp) ==
    IF resp.Error
    THEN [h EXCEPT !.Responses = @ + 1, !.Errors = @ + 1,
                   !.StatusCodes = MapInc(@, resp.StatusCode)]
    ELSE [h EXCEPT !.Responses = @ + 1,
                   !.StatusCodes = MapInc(@, resp.StatusCode)]

\* Mutant: Responses is counted in the else branch only.
RecordResponseSeenInElse(h, resp) ==
    IF resp.Error
    THEN [h EXCEPT !.Errors = @ + 1]
    ELSE [h EXCEPT !.Responses = @ + 1,
                   !.StatusCodes = MapInc(@, resp.StatusCode)]

\* Mutant: a response is recorded only when the filters let it through.
RecordResponseIfPrinted(h, resp) ==
    IF ~ShouldPrint(filters, resp) THEN h
    ELSE IF resp.Error
    THEN [h EXCEPT !.Responses = @ + 1, !.Errors = @ + 1]
    ELSE [h EXCEPT !.Responses = @ + 1,
                   !.StatusCodes = MapInc(@, resp.StatusCode)]

\* stats.Responses++ and the Errors / StatusCodes update of one response.
RecordResponse(h, resp) ==
    IF resp.Error
    THEN [h EXCEPT !.Responses = @ + 1, !.Errors = @ + 1]
    ELSE [h EXCEPT !.Responses = @ + 1,
                   !.StatusCodes = MapInc(@, resp.StatusCode)]

\* Mutant: the closing summary skips the summary line of the report too.
ClosingReportLinesCodesOnly(res) == SubSeq(res, 3, Len(res))

\* The lines of the closing summary taken from the final report.
ClosingReportLines(res) == SubSeq(res, 2, Len(res))

(***************************************************************************)
(* Initial state                                                           *)
(***************************************************************************)
NoResponse == [Item |-> <<>>, Error |-> FALSE, StatusCode |-> 0]

\* A LogTerminal that has printed nothing, and no call of formatSeconds.
NoLog == [Terminal |-> <<>>, w |-> <<>>]
NoFormat == [secs |-> 0, text |-> <<>>]

Init ==
    /\ pc = "start"
    /\ filters \in FilterSets
    /\ chClosed = FALSE
    /\ countChannel = <<>>
    /\ response = NoResponse
    /\ print = FALSE
    /\ stats = ZeroStats
    /\ transcript = <<>>
    /\ status = <<>>
    /\ statusCalls = 0
    /\ now = 0
    /\ received = <<>>
    /\ countsSent = <<>>
    /\ countsTaken = <<>>
    /\ lt = NoLog
    /\ fsCall = NoFormat

(***************************************************************************)
(* The producer and the clock                                              *)
(***************************************************************************)
\* close(ch) by the producer.
CloseCh ==
    /\ ~chClosed
    /\ chClosed' = TRUE
    /\ UNCHANGED <<pc, filters, countChannel, response, print, stats,
                   transcript, status, statusCalls, now, received, countsSent,
                   countsTaken>>
    /\ UNCHANGED <<lt, fsCall>>

\* countChannel <- c by the producer. The queue holds the values whose
\* senders wait or that the channel buffers; they are received in order.
SendCount ==
    /\ Len(countsSent) < MaxCounts
    /\ \E c \in Counts :
          /\ countChannel' = Append(countChannel, c)
          /\ countsSent' = Append(countsSent, c)
    /\ UNCHANGED <<pc, filters, chClosed, response, print, stats, transcript,
                   status, statusCalls, now, received, countsTaken>>
    /\ UNCHANGED <<lt, fsCall>>

\* Time passes. The clock runs while Display does: Display reads only
\* differences of times.
Tick ==
    /\ pc \notin {"start", "done"}
    /\ now < MaxTime
    /\ now' = now + 1
    /\ UNCHANGED <<pc, filters, chClosed, countChannel, response, print,
                   stats, transcript, status, statusCalls, received,
                   countsSent, countsTaken>>
    /\ UNCHANGED <<lt, fsCall>>

(***************************************************************************)
(* Display                                                                 *)
(***************************************************************************)
\* Mutant: the header line is not printed.
BeginNoHeader ==
    /\ pc = "start"
    /\ stats' = [ZeroStats EXCEPT !.Start = now]
    /\ pc' = "range"
    /\ UNCHANGED <<filters, chClosed, countChannel, response, print, status,
                   statusCalls, now, received, countsSent, countsTaken,
                   transcript>>
    /\ UNCHANGED <<lt, fsCall>>

\* Lines 118-123: the header line, then the fresh HTTPStats.
Begin ==
    /\ pc = "start"
    /\ transcript' = Append(transcript, Line("header", HeaderLine))
    /\ stats' = [ZeroStats EXCEPT !.Start = now]
    /\ pc' = "range"
    /\ UNCHANGED <<filters, chClosed, countChannel, response, print, status,
                   statusCalls, now, received, countsSent, countsTaken>>
    /\ UNCHANGED <<lt, fsCall>>

\* Line 125: range receives the next response. ch is modelled at its
\* receiving end: Display receives the responses in the order of the sends
\* whatever the capacity of ch, and chClosed is the close as range sees it,
\* after the last response sent before it.
RangeNext ==
    /\ pc = "range"
    /\ ~chClosed
    /\ Len(received) < MaxResults
    /\ \E r \in ResponseValues :
          /\ response' = r
          /\ received' = Append(received, r)
    /\ pc' = "body"
    /\ UNCHANGED <<filters, chClosed, countChannel, print, stats, transcript,
                   status, statusCalls, now, countsSent, countsTaken>>
    /\ UNCHANGED <<lt, fsCall>>

\* Mutant: the value is read and left in the channel.
SelectCountPeek(h, q) ==
    IF q # <<>>
    THEN [stats |-> [h EXCEPT !.Count = Head(q)], q |-> q, taken |-> <<Head(q)>>]
    ELSE [stats |-> h, q |-> q, taken |-> <<>>]

\* Mutant: the select drains the channel and keeps the latest value.
SelectCountKeepLatest(h, q) ==
    IF q # <<>>
    THEN [stats |-> [h EXCEPT !.Count = q[Len(q)]], q |-> <<>>, taken |-> q]
    ELSE [stats |-> h, q |-> q, taken |-> <<>>]

\* Lines 126-130: select with default on countChannel q. The stats, the
\* channel and the values taken (none or one) that it leaves behind.
SelectCount(h, q) ==
    IF q # <<>>
    THEN [stats |-> [h EXCEPT !.Count = Head(q)], q |-> Tail(q),
          taken |-> <<Head(q)>>]
    ELSE [stats |-> h, q |-> q, taken |-> <<>>]

\* Lines 126-151: one iteration of the loop on the received response.
Iterate ==
    /\ pc = "body"
    /\ LET sel == SelectCount(stats, countChannel)
           h2 == RecordResponse(sel.stats, response)
           rep == Report(h2, response.Item, now)
       IN  /\ countChannel' = sel.q
           /\ countsTaken' = countsTaken \o sel.taken
           /\ print' = ShouldPrint(filters, response)
           /\ transcript' =
                 IF print'
                 THEN Append(transcript, Line("response", ResponseLine(response)))
                 ELSE transcript
           /\ stats' = rep.stats
           /\ status' = rep.res
           /\ statusCalls' = statusCalls + 1
    /\ pc' = "range"
    /\ UNCHANGED <<filters, chClosed, response, now, received, countsSent>>
    /\ UNCHANGED <<lt, fsCall>>

\* Mutant: range ends only once countChannel is drained as well.
CanFinishWhenDrained == pc = "range" /\ chClosed /\ countChannel = <<>>

\* Line 125: range ends when ch is closed (and nothing is left to receive).
CanFinish == pc = "range" /\ chClosed

\* What Finish prints and leaves in stats.
FinishOutput ==
    LET rep == Report(stats, <<>>, now)
        lines == ClosingReportLines(rep.res)
    IN  /\ stats' = rep.stats
        /\ transcript' =
              transcript
              \o << Line("blank", <<"\n">>),
                    Line("processed", ProcessedLine(stats, now)) >>
              \o [i \in 1..Len(lines) |-> Line("report", lines[i])]

\* Mutant: the final report is also set as the status.
FinishSetsStatus ==
    /\ CanFinish
    /\ FinishOutput
    /\ status' = Report(stats, <<>>, now).res
    /\ statusCalls' = statusCalls + 1
    /\ pc' = "done"
    /\ UNCHANGED <<filters, chClosed, countChannel, response, print, now,
                   received, countsSent, countsTaken>>
    /\ UNCHANGED <<lt, fsCall>>

\* Mutant: an error response ends the loop.
FinishOnError ==
    /\ pc = "range"
    /\ chClosed \/ response.Error
    /\ FinishOutput
    /\ pc' = "done"
    /\ UNCHANGED <<filters, chClosed, countChannel, response, print, status,
                   statusCalls, now, received, countsSent, countsTaken>>
    /\ UNCHANGED <<lt, fsCall>>

\* Lines 125, 154-160: range ends on the closed channel; the closing
\* summary is printed and Display returns.
Finish ==
    /\ CanFinish
    /\ FinishOutput
    /\ pc' = "done"
    /\ UNCHANGED <<filters, chClosed, countChannel, response, print, status,
                   statusCalls, now, received, countsSent, countsTaken>>
    /\ UNCHANGED <<lt, fsCall>>

Display ==
    \/ Begin
    \/ RangeNext
    \/ Iterate
    \/ Finish

Next ==
    \/ CloseCh
    \/ SendCount
    \/ Tick
    \/ Display

Spec == Init /\ [][Next]_vars

\* Display is a running goroutine and the Terminal's calls return: a step
\* of its own is taken once it can be. Receiving a response needs the
\* producer, of which nothing is assumed. The steps of Display are the
\* steps that change pc; Begin and Iterate are enabled by their pc alone
\* and Finish by CanFinish.
DisplayStep ==
    /\ pc \in {"start", "body"} \/ CanFinish
    /\ pc' \in {"range", "done"} \ {pc}

FairSpec == Spec /\ WF_pc(DisplayStep)

(***************************************************************************)
(* LogTerminal (lines 23-40)                                               *)
(***************************************************************************)
MaxMsgLen == 2
MaxPrints == 2

\* The messages printed: texts of a letter, the percent sign and the
\* newline. None of them holds a flag, a width or a precision of a verb.
MsgChars == {"a", "%", "\n"}
Msgs == UNION {[1..n -> MsgChars] : n \in 0..MaxMsgLen}

\* strings.HasSuffix(msg, "\n").
HasNewlineSuffix(msg) == msg # <<>> /\ msg[Len(msg)] = "\n"

\* fmt.Fprintf(w, format) without operands, on the texts of Msgs: what is
\* written. "%%" is a percent sign, a percent sign before another
\* character c is "%!c(MISSING)" and one that ends the format is
\* "%!(NOVERB)"; every other character is copied.
RECURSIVE Fprintf(_)
Fprintf(format) ==
    IF format = <<>> THEN <<>>
    ELSE IF Head(format) # "%" THEN <<Head(format)>> \o Fprintf(Tail(format))
    ELSE IF Len(format) = 1
         THEN <<"%", "!", "(", "N", "O", "V", "E", "R", "B", ")">>
    ELSE IF format[2] = "%"
         THEN <<"%">> \o Fprintf(SubSeq(format, 3, Len(format)))
    ELSE <<"%", "!", format[2], "(", "M", "I", "S", "S", "I", "N", "G", ")">>
         \o Fprintf(SubSeq(format, 3, Len(format)))

\* Lines 34-40: LogTerminal.Print(msg). The message with its newline goes
\* to the embedded Terminal and, as the format of Fprintf, to w.
LogTerminalPrint(l, msg) ==
    LET m2 == IF HasNewlineSuffix(msg) THEN msg ELSE msg \o <<"\n">>
    IN  [Terminal |-> Append(l.Terminal, m2), w |-> Append(l.w, Fprintf(m2))]

\* Lines 29-31: LogTerminal.Printf("%v\n", v) for a value v whose string
\* is text, the call Display makes for a response.
LogTerminalPrintf(l, text) == LogTerminalPrint(l, text \o <<"\n">>)

\* The variables of Display, but stats, while Display does not run.
displayVars == <<pc, filters, chClosed, countChannel, response, print,
                 transcript, status, statusCalls, now, received, countsSent,
                 countsTaken>>

DisplayIdle ==
    /\ pc = "start"
    /\ filters = <<>>
    /\ chClosed = FALSE
    /\ countChannel = <<>>
    /\ response = NoResponse
    /\ print = FALSE
    /\ transcript = <<>>
    /\ status = <<>>
    /\ statusCalls = 0
    /\ now = 0
    /\ received = <<>>
    /\ countsSent = <<>>
    /\ countsTaken = <<>>

LogInit ==
    /\ DisplayIdle
    /\ stats = ZeroStats
    /\ lt = NoLog
    /\ fsCall = NoFormat

LogPrint ==
    /\ Len(lt.Terminal) < MaxPrints
    /\ \E msg \in Msgs : lt' = LogTerminalPrint(lt, msg)
    /\ UNCHANGED <<displayVars, stats, fsCall>>

LogPrintf ==
    /\ Len(lt.Terminal) < MaxPrints
    /\ \E text \in Msgs : lt' = LogTerminalPrintf(lt, text)
    /\ UNCHANGED <<displayVars, stats, fsCall>>

LogNext ==
    \/ LogPrint
    \/ LogPrintf

LogSpec == LogInit /\ [][LogNext]_vars

(***************************************************************************)
(* HTTPStats on its own (lines 54-113): responses are recorded, Count is   *)
(* set, time passes and Report is called, in any order. status holds the   *)
(* lines the last call of Report returned and received the responses       *)
(* recorded.                                                               *)
(***************************************************************************)
MaxStatsResults == 3
MaxStatsTime == 5

\* The responses recorded; 99 is a status code whose string sorts after
\* that of 200.
StatsResponses ==
    { [Item |-> <<"a">>, Error |-> FALSE, StatusCode |-> 200],
      [Item |-> <<>>, Error |-> FALSE, StatusCode |-> 99],
      [Item |-> <<"c">>, Error |-> TRUE, StatusCode |-> 0] }

\* The values Count is set to, and the current items Report is called with.
StatsCounts == {0, 1, 5}
StatsCurrent == {<<>>, <<"a">>}

\* Lines 120-123: the HTTPStats as Display makes it, at time 0.
StatsInit ==
    /\ DisplayIdle
    /\ stats = [ZeroStats EXCEPT !.Start = now]
    /\ lt = NoLog
    /\ fsCall = NoFormat

\* Lines 132-137.
StatsRecord ==
    /\ Len(received) < MaxStatsResults
    /\ \E r \in StatsResponses :
          /\ stats' = RecordResponse(stats, r)
          /\ received' = Append(received, r)
    /\ UNCHANGED <<pc, filters, chClosed, countChannel, response, print,
                   transcript, status, statusCalls, now, countsSent,
                   countsTaken, lt, fsCall>>

\* Line 128.
StatsSetCount ==
    /\ \E c \in StatsCounts : stats' = [stats EXCEPT !.Count = c]
    /\ UNCHANGED <<pc, filters, chClosed, countChannel, response, print,
                   transcript, status, statusCalls, now, received, countsSent,
                   countsTaken, lt, fsCall>>

StatsTick ==
    /\ now < MaxStatsTime
    /\ now' = now + 1
    /\ UNCHANGED <<pc, filters, chClosed, countChannel, response, print,
                   stats, transcript, status, statusCalls, received,
                   countsSent, countsTaken, lt, fsCall>>

\* Lines 79-113: a call of Report.
StatsReport ==
    /\ \E current \in StatsCurrent :
          LET rep == Report(stats, current, now)
          IN  /\ stats' = rep.stats
              /\ status' = rep.res
    /\ UNCHANGED <<pc, filters, chClosed, countChannel, response, print,
                   transcript, statusCalls, now, received, countsSent,
                   countsTaken, lt, fsCall>>

StatsNext ==
    \/ StatsRecord
    \/ StatsSetCount
    \/ StatsTick
    \/ StatsReport

StatsSpec == StatsInit /\ [][StatsNext]_vars

(***************************************************************************)
(* formatSeconds on its own (lines 65-76): one call on a whole number of   *)
(* seconds.                                                                *)
(***************************************************************************)
MaxSeconds == 3700

FormatInit ==
    /\ DisplayIdle
    /\ stats = ZeroStats
    /\ lt = NoLog
    /\ fsCall \in {[secs |-> s, text |-> <<>>] : s \in 0..MaxSeconds}

\* The call formatSeconds(float64(secs)).
FormatCall ==
    /\ fsCall.text = <<>>
    /\ fsCall' = [fsCall EXCEPT
                     !.text = formatSeconds([num |-> fsCall.secs, den |-> 1])]
    /\ UNCHANGED <<displayVars, stats, lt>>

FormatSpec == FormatInit /\ [][FormatCall]_vars

(***************************************************************************)
(* Definitions used to state the properties                                *)
(***************************************************************************)
\* Sum of the counts of a map.
RECURSIVE SumMap(_)
SumMap(m) ==
    IF DOMAIN m = {} THEN 0
    ELSE LET c == CHOOSE x \in DOMAIN m : TRUE
         IN  m[c] + SumMap([x \in DOMAIN m \ {c} |-> m[x]])

\* The responses whose iteration is complete: all the received ones, but
\* the one still in the loop body.
Processed ==
    IF pc = "body" THEN SubSeq(received, 1, Len(received) - 1) ELSE received

IsError(r) == r.Error

\* Number of responses of a sequence with an error / with status code c.
NumErrors(rs) == Len(SelectSeq(rs, IsError))
NumCode(rs, c) == Cardinality({i \in 1..Len(rs) : ~rs[i].Error /\ rs[i].StatusCode = c})
CodesOf(rs) == {rs[i].StatusCode : i \in {j \in 1..Len(rs) : ~rs[j].Error}}

\* Some filter of the FilterSet rejects r.
Rejected(r) == \E i \in 1..Len(filters) : Reject(filters[i], r)
NotRejected(r) == ~Rejected(r)

\* The transcript entries printed at one place, and their texts.
AtSite(site) == {i \in 1..Len(transcript) : transcript[i].site = site}
IsResponseEntry(e) == e.site = "response"
ResponseTexts ==
    LET es == SelectSeq(transcript, IsResponseEntry)
    IN  [i \in 1..Len(es) |-> es[i].text]

\* The text sub occurs in the text s; one of the lines is the text t.
Contains(s, sub) ==
    \E i \in 1..(Len(s) - Len(sub) + 1) : SubSeq(s, i, i + Len(sub) - 1) = sub
HasLine(lines, t) == \E i \in 1..Len(lines) : lines[i] = t

(***************************************************************************)
(* C1. In every state Display reaches, whatever mix of errors and          *)
(* successes it has received: Responses = sum of the StatusCodes counts    *)
(* + Errors.                                                               *)
(***************************************************************************)
C1_CountsAddUp ==
    stats.Responses = SumMap(stats.StatusCodes) + stats.Errors

\* Errors and successes have both been recorded.
C1_Witness ==
    /\ pc = "range"
    /\ stats.Errors >= 1
    /\ Cardinality(DOMAIN stats.StatusCodes) = 2
    /\ stats.Responses = 3

(***************************************************************************)
(* C2. After Display has processed N responses Responses = N, and if none  *)
(* of them carried an error the StatusCodes counts sum to N as well.       *)
(***************************************************************************)
C2_OncePerResult ==
    /\ stats.Responses = Len(Processed)
    /\ NumErrors(Processed) = 0 => SumMap(stats.StatusCodes) = Len(Processed)

\* MaxResults error-free responses have been processed.
C2_Witness ==
    /\ pc = "range"
    /\ Len(received) = MaxResults
    /\ NumErrors(received) = 0
    /\ SumMap(stats.StatusCodes) = MaxResults

(***************************************************************************)
(* C3. The filters never affect the accumulator: after each response the   *)
(* counters Responses, Errors and StatusCodes are those of the responses   *)
(* processed so far, whatever the FilterSet is and whether or not the      *)
(* lines were printed.                                                     *)
(***************************************************************************)
C3_FiltersLeaveStats ==
    /\ stats.Responses = Len(Processed)
    /\ stats.Errors = NumErrors(Processed)
    /\ DOMAIN stats.StatusCodes = CodesOf(Processed)
    /\ \A c \in CodesOf(Processed) : stats.StatusCodes[c] = NumCode(Processed, c)

\* A response was suppressed, an error and a success were printed, and all
\* three were counted.
C3_Witness ==
    /\ pc = "range"
    /\ Len(received) = 3
    /\ filters # <<alwaysReject, alwaysAccept>>
    /\ \E i \in 1..3 : Rejected(received[i])
    /\ \E i \in 1..3 : ~Rejected(received[i]) /\ received[i].Error
    /\ \E i \in 1..3 : ~Rejected(received[i]) /\ ~received[i].Error
    /\ Len(ResponseTexts) < 3
    /\ stats.Responses = 3

(***************************************************************************)
(* C4. The line of a response is appended to the transcript exactly when   *)
(* no filter of the FilterSet rejects it: with [alwaysReject, alwaysAccept]*)
(* no response is printed, with no filters every response is.              *)
(***************************************************************************)
C4_PrintedIffNotRejected ==
    /\ ResponseTexts =
          LET kept == SelectSeq(Processed, NotRejected)
          IN  [i \in 1..Len(kept) |-> ResponseLine(kept[i])]
    /\ filters = <<alwaysReject, alwaysAccept>> => AtSite("response") = {}
    /\ filters = <<>> => Cardinality(AtSite("response")) = Len(Processed)

\* A FilterSet whose first filter accepts and whose second rejects has
\* suppressed a response and printed another.
C4_Witness ==
    /\ pc = "range"
    /\ Len(filters) = 2
    /\ \E i \in 1..Len(received) :
          ~Reject(filters[1], received[i]) /\ Reject(filters[2], received[i])
    /\ Len(ResponseTexts) >= 1
    /\ Len(ResponseTexts) < Len(received)

(***************************************************************************)
(* C5 as claimed. When the result stream is closed Display appends a       *)
(* blank line, the 'processed <total> HTTP requests in <elapsed>' line,    *)
(* and then only the sorted status-code lines: nothing else follows the    *)
(* 'processed' line.                                                       *)
(***************************************************************************)
\* The "<code>: <count>" lines of the responses rs, sorted.
ExpectedCodeLines(rs) ==
    SortStrings({ Itoa(c) \o <<":", " ">> \o Itoa(NumCode(rs, c)) : c \in CodesOf(rs) })

\* The texts of the transcript entries after entry k.
TextsAfter(k) ==
    [i \in 1..(Len(transcript) - k) |-> transcript[k + i].text]

\* Index of the 'processed' line.
ProcessedAt == CHOOSE k \in AtSite("processed") : TRUE

C5_OnlyCodeLinesFollow ==
    pc = "done" => TextsAfter(ProcessedAt) = ExpectedCodeLines(received)

(***************************************************************************)
(* C5 as amended. When the result stream is closed Display appends a blank *)
(* line, the 'processed <total> HTTP requests in <elapsed>' line, then the *)
(* summary line of the final report ('<total> requests' with its rate and  *)
(* todo parts) and then the sorted status-code lines, one per distinct     *)
(* status code seen; nothing else follows.                                 *)
(***************************************************************************)
C5_SummaryThenCodeLines ==
    pc = "done" =>
       LET k == ProcessedAt
           after == TextsAfter(k)
       IN  /\ AtSite("processed") = {k}
           /\ transcript[k - 1] = Line("blank", <<"\n">>)
           /\ transcript[k] =
                 Line("processed", ProcessedLine(stats, now))
           /\ after = <<StatusLine(stats, <<>>)>> \o ExpectedCodeLines(received)
           /\ Len(after) = 1 + Cardinality(CodesOf(received))
           /\ \A i \in 2..(Len(after) - 1) : StrLess(after[i], after[i + 1])
           /\ \A i \in (k + 1)..Len(transcript) : transcript[i].site = "report"

\* Display has returned after responses with two distinct status codes.
C5_Witness ==
    /\ pc = "done"
    /\ Cardinality(CodesOf(received)) = 2
    /\ Len(transcript) = ProcessedAt + 3

(***************************************************************************)
(* C6 as claimed. If the producer has sent several expected-total values   *)
(* before Display polls countChannel, then after that poll Count holds the *)
(* most recently sent of them and none of them is left to be assigned.     *)
(***************************************************************************)
C6_LatestIsKept ==
    [][ (pc = "body" /\ pc' = "range" /\ Len(countChannel) >= 2) =>
           /\ stats'.Count = countChannel[Len(countChannel)]
           /\ countChannel' = <<>>
      ]_vars

(***************************************************************************)
(* C6 as amended. A poll takes one value, the oldest pending one: if the   *)
(* producer has sent several values before Display polls, that poll sets   *)
(* Count to the first of them, and the later ones stay queued in order,    *)
(* none dropped, for the polls of the later iterations.                    *)
(***************************************************************************)
C6_OldestIsTaken ==
    /\ [][ (pc = "body" /\ pc' = "range" /\ countChannel # <<>>) =>
              /\ stats'.Count = Head(countChannel)
              /\ countChannel' = Tail(countChannel)
              /\ countsTaken' = Append(countsTaken, Head(countChannel))
         ]_vars
    /\ [](countsSent = countsTaken \o countChannel)

\* Two different values were sent before the first poll: the poll took the
\* first, the second is still queued.
C6_Witness ==
    /\ pc = "range"
    /\ Len(received) = 1
    /\ Len(countsSent) = 2
    /\ countsSent[1] # countsSent[2]
    /\ countsTaken = <<countsSent[1]>>
    /\ stats.Count = countsSent[1]
    /\ countChannel = <<countsSent[2]>>

(***************************************************************************)
(* C7. SetStatus is called exactly once per processed response, with the   *)
(* report of the stats that include the response, after the response's     *)
(* line, if any, was appended; it is not called once the loop has ended:   *)
(* the closing summary only appends to the transcript.                     *)
(***************************************************************************)
C7_SetStatusOncePerResult ==
    /\ [](statusCalls = Len(Processed))
    /\ [][ /\ statusCalls' # statusCalls =>
                /\ pc = "body"
                /\ pc' = "range"
                /\ statusCalls' = statusCalls + 1
                /\ stats'.Responses = stats.Responses + 1
                /\ status' = Report(stats', response.Item, now).res
                /\ print' => transcript' =
                      Append(transcript, Line("response", ResponseLine(response)))
           /\ status' # status => statusCalls' # statusCalls
           /\ pc' = "done" => statusCalls' = statusCalls
         ]_vars

\* Display has returned after MaxResults responses and as many SetStatus
\* calls; the status is still the one of the last response.
C7_Witness ==
    /\ pc = "done"
    /\ statusCalls = MaxResults
    /\ status = Report(stats, response.Item, now).res
    /\ response.Item # <<>>

(***************************************************************************)
(* C8. If the result stream is closed, Display eventually returns, and it  *)
(* has then appended exactly one closing summary to the transcript.        *)
(***************************************************************************)
C8_ClosedLeadsToReturn ==
    /\ chClosed ~> pc = "done"
    /\ [](pc = "done" =>
            /\ Cardinality(AtSite("blank")) = 1
            /\ Cardinality(AtSite("processed")) = 1
            /\ Cardinality(AtSite("report")) = 1 + Cardinality(CodesOf(received)))
    /\ [][pc = "done" => transcript' = transcript /\ pc' = "done"]_vars

\* Display has returned after the close, the responses it had received
\* before all processed.
C8_Witness ==
    /\ pc = "done"
    /\ chClosed
    /\ Len(received) >= 2
    /\ Cardinality(AtSite("blank")) = 1

(***************************************************************************)
(* C9. Display does not return, and prints nothing of the closing summary, *)
(* before the result stream is closed: no response, error or not, and no   *)
(* value on countChannel ends the loop.                                    *)
(***************************************************************************)
C9_ReturnsOnlyOnClose ==
    /\ pc = "done" => chClosed
    /\ pc # "done" =>
          AtSite("blank") \cup AtSite("processed") \cup AtSite("report") = {}

\* The loop is still running after errors and expected-total values.
C9_Witness ==
    /\ pc = "range"
    /\ ~chClosed
    /\ Len(received) = MaxResults
    /\ NumErrors(received) >= 2
    /\ countsTaken # <<>>
    /\ stats.Errors >= 2

(***************************************************************************)
(* C10. The transcript of a Display run is the header line, once and       *)
(* first, then one line per response that was not suppressed, in the       *)
(* order of the result stream, then the closing blank line and summary:    *)
(* no response line comes before the header or after the blank line.       *)
(***************************************************************************)
SiteRank(site) ==
    CASE site = "header" -> 0
      [] site = "response" -> 1
      [] site = "blank" -> 2
      [] site = "processed" -> 3
      [] site = "report" -> 4

\* a is b with some elements left out.
RECURSIVE IsSubSeq(_, _)
IsSubSeq(a, b) ==
    IF a = <<>> THEN TRUE
    ELSE IF b = <<>> THEN FALSE
    ELSE IF Head(a) = Head(b) THEN IsSubSeq(Tail(a), Tail(b))
    ELSE IsSubSeq(a, Tail(b))

C10_TranscriptShape ==
    /\ pc = "start" => transcript = <<>>
    /\ pc # "start" =>
          /\ Len(transcript) >= 1
          /\ transcript[1] = Line("header", HeaderLine)
          /\ AtSite("header") = {1}
    /\ \A i, j \in 1..Len(transcript) :
          i < j => SiteRank(transcript[i].site) <= SiteRank(transcript[j].site)
    /\ Cardinality(AtSite("blank")) = IF pc = "done" THEN 1 ELSE 0
    /\ Len(ResponseTexts) = Len(SelectSeq(Processed, NotRejected))
    /\ IsSubSeq(ResponseTexts,
                [i \in 1..Len(Processed) |-> ResponseLine(Processed[i])])

\* A finished run that printed two different response lines and
\* suppressed a third response.
C10_Witness ==
    /\ pc = "done"
    /\ Len(received) = 3
    /\ Len(ResponseTexts) = 2
    /\ ResponseTexts[1] # ResponseTexts[2]
    /\ transcript[4].site = "blank"

(***************************************************************************)
(* C11 as claimed. When the results 200, 200, 404 are fed and the expected *)
(* total 5 is sent on countChannel, the final report has the lines         *)
(* "200: 2" and "404: 1" and the status line computed after the third      *)
(* result contains "2 todo", for every interleaving of the sends on the    *)
(* two channels.                                                           *)
(***************************************************************************)
\* The three results have been processed and 5 has been sent.
C11_Scenario ==
    /\ pc \in {"range", "done"}
    /\ Len(received) = 3
    /\ NumErrors(received) = 0
    /\ [i \in 1..3 |-> received[i].StatusCode] = <<200, 200, 404>>
    /\ countsSent = <<5>>

\* The texts of the final report in the transcript.
FinalReportTexts == TextsAfter(ProcessedAt)

C11_CodeLines ==
    /\ HasLine(status, <<"2", "0", "0", ":", " ", "2">>)
    /\ HasLine(status, <<"4", "0", "4", ":", " ", "1">>)
    /\ pc = "done" =>
          /\ HasLine(FinalReportTexts, <<"2", "0", "0", ":", " ", "2">>)
          /\ HasLine(FinalReportTexts, <<"4", "0", "4", ":", " ", "1">>)

C11_TodoInEveryInterleaving ==
    C11_Scenario =>
        /\ C11_CodeLines
        /\ Contains(status[2], <<"2", " ", "t", "o", "d", "o">>)

(***************************************************************************)
(* C11 amended. In every interleaving the final report has the lines       *)
(* "200: 2" and "404: 1". The status line computed after the third result  *)
(* contains "2 todo" exactly when Display has taken the 5 from             *)
(* countChannel in one of the three iterations, that is when it was sent   *)
(* before the poll of the third iteration at the latest; sent later, the   *)
(* status line has no todo part.                                           *)
(***************************************************************************)
C11_TodoOnceTaken ==
    C11_Scenario =>
        /\ C11_CodeLines
        /\ countsTaken = <<5>> <=>
              Contains(status[2], <<",", " ", "2", " ", "t", "o", "d", "o">>)
        /\ countsTaken = <<>> => ~Contains(status[2], <<"t", "o", "d", "o">>)

\* Display has returned; the 5 was sent before the second result was
\* received and taken while one of the three was processed.
C11_Witness ==
    /\ C11_Scenario
    /\ pc = "done"
    /\ countsTaken = <<5>>
    /\ stats.Count = 5
    /\ Contains(status[2], <<"2", " ", "t", "o", "d", "o">>)
    /\ HasLine(FinalReportTexts, <<"2", "0", "0", ":", " ", "2">>)

(***************************************************************************)
(* C12. Every line printed through Print or Printf of the LogTerminal is   *)
(* written to w as a verbatim copy of what is passed to the embedded       *)
(* Terminal, the message with a newline appended when it had none, for     *)
(* every message, those with a percent sign included.                      *)
(***************************************************************************)
C12_SinkIsVerbatim ==
    /\ \A i \in 1..Len(lt.Terminal) : HasNewlineSuffix(lt.Terminal[i])
    /\ lt.w = lt.Terminal

(***************************************************************************)
(* C13. A response that carries an error increments Errors and Responses,  *)
(* leaves every entry of StatusCodes unchanged, and still goes through     *)
(* the filters: its line is appended to the transcript when no filter      *)
(* rejects it (and only then).                                             *)
(***************************************************************************)
C13_ErrorCountedAndFiltered ==
    [][(pc = "body" /\ pc' = "range" /\ response.Error) =>
          /\ stats'.Errors = stats.Errors + 1
          /\ stats'.Responses = stats.Responses + 1
          /\ stats'.StatusCodes = stats.StatusCodes
          /\ transcript' =
                IF NotRejected(response)
                THEN Append(transcript, Line("response", ResponseLine(response)))
                ELSE transcript]_vars

\* An error that arrived after a success has been counted and printed,
\* under a FilterSet that rejects other responses.
C13_Witness ==
    /\ pc = "range"
    /\ Len(received) = 2
    /\ ~received[1].Error
    /\ response.Error
    /\ Len(filters) = 2
    /\ NotRejected(response)
    /\ stats.Errors = 1
    /\ stats.Responses = 2
    /\ SumMap(stats.StatusCodes) = 1
    /\ transcript[Len(transcript)] = Line("response", ResponseLine(response))

(***************************************************************************)
(* C14. In every report made before one full second has passed since      *)
(* Start, rps is 0 and the status line has no "req/s", however many        *)
(* responses have been recorded.                                           *)
(***************************************************************************)
C14_NoRateInFirstSecond ==
    now - stats.Start < TicksPerSec =>
        /\ stats.rps.num = 0
        /\ status # <<>> =>
              ~Contains(status[2], <<"r", "e", "q", "/", "s">>)

\* Half a second after Start, a report on three recorded responses.
C14_Witness ==
    /\ now - stats.Start = 1
    /\ stats.Responses = 3
    /\ stats.rps.num = 0
    /\ status # <<>>
    /\ status[2] = <<"3", " ", "r", "e", "q", "u", "e", "s", "t", "s">>

(***************************************************************************)
(* C15. Whenever Count is 0, never set or set to 0, the status line of a   *)
(* report has neither a "todo" part nor a "remaining" part, whatever rps   *)
(* and Responses are.                                                      *)
(***************************************************************************)
C15_NoTodoWithoutCount ==
    [][(stats.Count = 0 /\ status' # status) =>
          /\ ~Contains(status'[2], <<"t", "o", "d", "o">>)
          /\ ~Contains(status'[2], <<"r", "e", "m", "a", "i", "n", "i", "n", "g">>)
      ]_vars

\* A report with a rate on three responses while Count is 0.
C15_Witness ==
    /\ stats.Count = 0
    /\ stats.Responses = 3
    /\ stats.rps.num > 0
    /\ status # <<>>
    /\ Contains(status[2], <<"3", " ", "r", "e", "q", "u", "e", "s", "t", "s", ",">>)
    /\ Contains(status[2], <<"r", "e", "q", "/", "s">>)
    /\ ~Contains(status[2], <<"t", "o", "d", "o">>)

(***************************************************************************)
(* C16. Report returns exactly 2 + (number of distinct status codes        *)
(* recorded) lines: the blank line, the status line, then one              *)
(* "<code>: <count>" line per code, in the lexicographic order of the      *)
(* lines as strings; with no response recorded it returns two lines.       *)
(***************************************************************************)
\* The characters of the code lines in the order of their bytes.
AsciiOrder == <<" ", "0", "1", "2", "3", "4", "5", "6", "7", "8", "9", ":">>
ByteRank(c) == CHOOSE i \in 1..Len(AsciiOrder) : AsciiOrder[i] = c

\* a is before b in the lexicographic order.
LexBefore(a, b) ==
    \E k \in 1..(Len(a) + 1) :
        /\ k <= Len(b)
        /\ SubSeq(a, 1, k - 1) = SubSeq(b, 1, k - 1)
        /\ k <= Len(a) => ByteRank(a[k]) < ByteRank(b[k])

C16_ReportLines ==
    [][status' # status =>
          /\ Len(status') = 2 + Cardinality(CodesOf(received))
          /\ status'[1] = <<>>
          /\ Contains(status'[2], <<" ", "r", "e", "q", "u", "e", "s", "t", "s">>)
          /\ { status'[i] : i \in 3..Len(status') } =
                { Itoa(c) \o <<":", " ">> \o Itoa(NumCode(received, c)) :
                    c \in CodesOf(received) }
          /\ \A i \in 3..(Len(status') - 1) : LexBefore(status'[i], status'[i + 1])
          /\ received = <<>> => Len(status') = 2
      ]_vars

\* The line of 200 is before the line of 99.
C16_Witness ==
    /\ Len(received) = 3
    /\ status = << <<>>,
                   <<"3", " ", "r", "e", "q", "u", "e", "s", "t", "s">>,
                   <<"2", "0", "0", ":", " ", "1">>,
                   <<"9", "9", ":", " ", "2">> >>

(***************************************************************************)
(* C17. For every whole number s >= 0 of seconds, formatSeconds renders    *)
(* hours = s div 3600, minutes = (s mod 3600) div 60 and seconds =         *)
(* s mod 60 as "<hours>h<mm>m<ss>s" when hours > 0 and as "<minutes>m<ss>s"*)
(* otherwise: 0 gives "0m00s", 65 gives "1m05s", 3661 gives "1h01m01s".    *)
(***************************************************************************)
Digits == <<"0", "1", "2", "3", "4", "5", "6", "7", "8", "9">>
TwoDigits(n) == <<Digits[(n \div 10) + 1], Digits[(n % 10) + 1]>>

RendersAs(s) ==
    LET hours == s \div 3600
        minutes == (s % 3600) \div 60
        seconds == s % 60
    IN  IF hours > 0
        THEN Itoa(hours) \o <<"h">> \o TwoDigits(minutes) \o <<"m">>
             \o TwoDigits(seconds) \o <<"s">>
        ELSE Itoa(minutes) \o <<"m">> \o TwoDigits(seconds) \o <<"s">>

C17_FormatSeconds ==
    fsCall.text # <<>> =>
        /\ fsCall.text = RendersAs(fsCall.secs)
        /\ fsCall.secs = 0 => fsCall.text = <<"0", "m", "0", "0", "s">>
        /\ fsCall.secs = 65 => fsCall.text = <<"1", "m", "0", "5", "s">>
        /\ fsCall.secs = 3661 =>
              fsCall.text = <<"1", "h", "0", "1", "m", "0", "1", "s">>

\* The call on 3661 seconds has returned.
C17_Witness ==
    /\ fsCall.secs = 3661
    /\ fsCall.text = <<"1", "h", "0", "1", "m", "0", "1", "s">>

(***************************************************************************)
(* C18 as claimed. A call of Report recomputes rps exactly when at least   *)
(* one full second has passed since Start and at least one full second     *)
(* has passed since lastRPS; the new rps is Responses divided by the       *)
(* seconds elapsed since Start; otherwise rps and lastRPS are unchanged.   *)
(***************************************************************************)
\* Report is being called: nothing else changes status.
ReportCalled == status' # status
Recomputed == stats'.lastRPS # stats.lastRPS
SinceStart == now - stats.Start
SinceLastRPS == now - stats.lastRPS

\* The step leaves in rps the responses per whole second since Start.
NewRate ==
    /\ stats'.lastRPS = now
    /\ stats'.rps.den > 0
    /\ stats'.rps.num * (SinceStart \div TicksPerSec)
          = stats.Responses * stats'.rps.den

RateKept ==
    /\ stats'.rps = stats.rps
    /\ stats'.lastRPS = stats.lastRPS

C18_RecomputedAfterOneSecond ==
    [][/\ Recomputed =>
             SinceStart >= TicksPerSec /\ SinceLastRPS >= TicksPerSec /\ NewRate
       /\ ~Recomputed => RateKept
       /\ (ReportCalled /\ SinceStart >= TicksPerSec /\ SinceLastRPS >= TicksPerSec)
             => Recomputed
      ]_vars

(***************************************************************************)
(* C18 amended. A call of Report recomputes rps exactly when at least one  *)
(* full second has passed since Start and more than one second has passed  *)
(* since lastRPS (or rps was never computed): a call exactly one second    *)
(* after the last update leaves rps as it is. The new rps is Responses     *)
(* divided by the whole seconds elapsed since Start; otherwise rps and     *)
(* lastRPS are unchanged, so rps changes at most once per second.          *)
(***************************************************************************)
C18_RecomputedAfterMoreThanOneSecond ==
    [][/\ Recomputed =>
             SinceStart >= TicksPerSec /\ SinceLastRPS > TicksPerSec /\ NewRate
       /\ ~Recomputed => RateKept
       /\ (ReportCalled /\ SinceStart >= TicksPerSec /\ SinceLastRPS > TicksPerSec)
             => Recomputed
       /\ (ReportCalled /\ SinceLastRPS = TicksPerSec) => RateKept
      ]_vars

\* One second after the update of rps, with a response recorded since: the
\* report shows the three responses and the rate computed from two.
C18_Witness ==
    /\ stats.lastRPS >= stats.Start + TicksPerSec
    /\ now - stats.lastRPS = TicksPerSec
    /\ stats.rps.num = 2
    /\ stats.Responses = 3
    /\ status # <<>>
    /\ Contains(status[2], <<"3", " ", "r", "e", "q", "u", "e", "s", "t", "s", ",">>)
    /\ Contains(status[2], <<"r", "e", "q", "/", "s">>)

(***************************************************************************)
(* C19. Display takes at most one value from countChannel per response     *)
(* received, in the order the values were sent, and only in an iteration   *)
(* that also processes a response: Count never changes while no response   *)
(* arrives, and values still pending when ch is closed are never applied.  *)
(***************************************************************************)
C19_OneCountPerResponse ==
    /\ [][(countsTaken' # countsTaken \/ stats'.Count # stats.Count) =>
             /\ pc = "body" /\ pc' = "range"
             /\ stats'.Responses = stats.Responses + 1
             /\ countChannel # <<>>
             /\ countsTaken' = Append(countsTaken, Head(countChannel))
             /\ countChannel' = Tail(countChannel)
             /\ stats'.Count = Head(countChannel)]_vars
    /\ [][pc' = "done" => (countsTaken' = countsTaken /\ stats'.Count = stats.Count)]_vars
    /\ [](/\ Len(countsTaken) <= Len(Processed)
          /\ countsTaken = SubSeq(countsSent, 1, Len(countsTaken))
          /\ stats.Count = IF countsTaken = <<>> THEN 0
                           ELSE countsTaken[Len(countsTaken)])

\* Display has returned after one response: of the 2 and the 5 sent before
\* it, the 2 was applied and the 5 is left in the channel.
C19_Witness ==
    /\ pc = "done"
    /\ Len(received) = 1
    /\ countsSent = <<2, 5>>
    /\ countsTaken = <<2>>
    /\ countChannel = <<5>>
    /\ stats.Count = 2

(***************************************************************************)
(* C20. Whenever Count > 0 the todo figure of the status line is exactly   *)
(* Count - Responses, with no clamping: once Responses exceeds Count the   *)
(* figure is negative, and with rps > 0 the negative duration todo / rps   *)
(* is passed to formatSeconds.                                             *)
(***************************************************************************)
C20_TodoIsNotClamped ==
    [][(status' # status /\ stats.Count > 0) =>
          LET todo == stats.Count - stats.Responses
              rate == stats'.rps
          IN  /\ Contains(status'[2],
                          <<",", " ">> \o Itoa(todo) \o <<" ", "t", "o", "d", "o">>)
              /\ rate.num > 0 =>
                    Contains(status'[2],
                             <<"t", "o", "d", "o", ",", " ">>
                             \o formatSeconds([num |-> todo * rate.den,
                                               den |-> rate.num])
                             \o <<" ", "r", "e", "m", "a", "i", "n", "i", "n", "g">>)
      ]_vars

\* Three responses against a Count of 1 at 1.5 responses a second: todo is
\* -2 and formatSeconds is given -4/3 seconds.
C20_Witness ==
    /\ stats.Count = 1
    /\ stats.Responses = 3
    /\ stats.rps = [num |-> 3, den |-> 2]
    /\ status # <<>>
    /\ Contains(status[2],
                <<"-", "2", " ", "t", "o", "d", "o", ",", " ",
                  "0", "m", "-", "1", "s", " ", "r", "e", "m", "a", "i", "n",
                  "i", "n", "g">>)

=============================================================================
